---- MODULE Spec2Model ----
(***************************************************************************)
(* A model of myheaders/helper_functions.h of NPSAT:                       *)
(*   - try_mapping<dim>        (lines 35-58), the bounded randomized retry *)
(*     around MappingQ1::transform_real_to_unit_cell, with the global      *)
(*     state of rand() shared by the calls of one process;                 *)
(*   - get_connected_indices<dim> (lines 144-233), the node adjacency      *)
(*     tables of the reference quadrilateral / hexahedron;                 *)
(*   - triangle_area<dim> and recharge_weight<dim> (lines 87-134) in a     *)
(*     binary floating-point arithmetic of reduced precision.              *)
(***************************************************************************)
EXTENDS Integers, Sequences, FiniteSets

VARIABLES
    dim,            \* the template parameter <int dim> of the instantiation
    \* ---- try_mapping, one entry per thread of the process
    pc,             \* position of each call: "idle","try","rand","rand_ret","count","done"
    p,              \* argument p: the physical point (grid units, see Offset)
    p_try,          \* local p_try
    p_unit,         \* reference argument p_unit
    mapping_done,   \* local mapping_done (the value returned at line 57)
    count_try,      \* local count_try
    idim,           \* loop variable idim of line 47
    r_tmp,          \* the generator state a running rand() has read
    rand_state,     \* the hidden global state of rand(), shared by all threads
    seed0,          \* history: the generator state when the calls started
    query,          \* history: the point handed to the latest transform_real_to_unit_cell
    attempts,       \* history: number of transform_real_to_unit_cell calls made
    failed,         \* history: number of those calls that threw
    draws,          \* history: number of rand() calls completed
    \* ---- get_connected_indices
    return_all,     \* the hard-coded flag of line 146
    ii,             \* the argument ii
    out,            \* the vector returned by the latest call
    outcome,        \* "none" before a call, then how the call ended
    path,           \* history: the nodes visited by following returned neighbours
    \* ---- recharge_weight / triangle_area
    gpc,            \* position in recharge_weight: "start","real","proj","done"
    face,           \* the four vertices v1..v4 of the face
    A_real,         \* local A_real (line 129)
    A_proj,         \* local A_proj (line 130)
    weight,         \* the returned weight, as the pair <<A_proj, A_real>> of the quotient
    exact           \* history: no floating-point operation has rounded so far

tmVars  == <<pc, p, p_try, p_unit, mapping_done, count_try, idim, r_tmp,
             rand_state, seed0, query, attempts, failed, draws>>
adjVars == <<return_all, ii, out, outcome, path>>
geoVars == <<gpc, face, A_real, A_proj, weight, exact>>
vars    == <<dim, tmVars, adjVars, geoVars>>

(***************************************************************************)
(* Bounds of the model.                                                    *)
(***************************************************************************)
\* The model's RAND_MAX: rand() returns a value of 0..RandMax.
RandMax == 2
\* The coordinates of the caller's point p are drawn from 0..MaxP.
MaxP == 1
\* In the concurrent specification each call's mapping throws at most
\* ConcFails times before it inverts.
ConcFails == 2

(***************************************************************************)
(* try_mapping                                                             *)
(***************************************************************************)
Threads == {"t1", "t2"}

\* count_try > 20 of line 50
MaxRetry == 20

Axes(d) == 0 .. (d - 1)

Points(d) == [Axes(d) -> 0 .. MaxP]

\* Coordinates are counted in units of 0.0001/RAND_MAX, so that
\* 0.0001*(-1.0 + 2.0*(double(r)/double(RAND_MAX))) is 2r - RAND_MAX units
\* and the half-width 0.0001 of the perturbation is RAND_MAX units.
Offset(r) == 2 * r - RandMax

Eps == RandMax

\* rand(): a deterministic generator over one hidden global state; the value
\* returned is the new state.
NextRand(s) == (s + 1) % (RandMax + 1)

\* The point p_try starts from (line 40).
InitialTryBad(pt) == [i \in DOMAIN pt |-> pt[i] + 1]
InitialTry(pt) == pt

\* The point a perturbation is added to (line 48: p[idim], not p_try[idim]).
PerturbBaseBad(t) == p_try[t]
PerturbBase(t) == p[t]

\* The exit test of line 50.
RetryLimitReachedBad(c) == c >= MaxRetry
RetryLimitReached(c) == c > MaxRetry

\* ++count_try of line 49.
NextCountBad(c) == c
NextCount(c) == c + 1

\* What transform_real_to_unit_cell returns for a query point.
TransformResult(pt) == [from |-> "transform", at |-> pt]

\* What the caller's p_unit holds before the call.
CallerUnit == [from |-> "caller", at |-> <<>>]

\* p_unit after a transform_real_to_unit_cell that threw: the assignment of
\* line 43 never happened.
UnitAfterThrowBad(t) == TransformResult(p_try[t])
UnitAfterThrow(t) == p_unit[t]

\* The threads of `active` have entered try_mapping (lines 38-40 done).
TryMappingInit(active, dims) ==
    /\ dim \in dims
    /\ \E arg \in [active -> Points(dim)] :
         /\ p = [t \in Threads |-> IF t \in active THEN arg[t] ELSE <<>>]
         /\ p_try = [t \in Threads |-> IF t \in active THEN InitialTry(arg[t]) ELSE <<>>]
    /\ pc = [t \in Threads |-> IF t \in active THEN "try" ELSE "idle"]
    /\ p_unit = [t \in Threads |-> CallerUnit]
    /\ mapping_done = [t \in Threads |-> FALSE]
    /\ count_try = [t \in Threads |-> 0]
    /\ idim = [t \in Threads |-> 0]
    /\ r_tmp = [t \in Threads |-> 0]
    /\ rand_state \in 0 .. RandMax
    /\ seed0 = rand_state
    /\ query = [t \in Threads |-> <<>>]
    /\ attempts = [t \in Threads |-> 0]
    /\ failed = [t \in Threads |-> 0]
    /\ draws = [t \in Threads |-> 0]

\* Lines 41-45: one transform_real_to_unit_cell(cell, p_try) that returns.
TransformOk(t) ==
    /\ pc[t] = "try"
    /\ query' = [query EXCEPT ![t] = p_try[t]]
    /\ attempts' = [attempts EXCEPT ![t] = @ + 1]
    /\ p_unit' = [p_unit EXCEPT ![t] = TransformResult(p_try[t])]
    /\ mapping_done' = [mapping_done EXCEPT ![t] = TRUE]
    /\ pc' = [pc EXCEPT ![t] = "done"]
    /\ UNCHANGED <<p, p_try, count_try, idim, r_tmp, rand_state, seed0, failed, draws>>
    /\ UNCHANGED <<dim, adjVars, geoVars>>

\* Lines 41-43, 46: one transform_real_to_unit_cell(cell, p_try) that throws.
TransformThrows(t) ==
    /\ pc[t] = "try"
    /\ query' = [query EXCEPT ![t] = p_try[t]]
    /\ attempts' = [attempts EXCEPT ![t] = @ + 1]
    /\ failed' = [failed EXCEPT ![t] = @ + 1]
    /\ p_unit' = [p_unit EXCEPT ![t] = UnitAfterThrow(t)]
    /\ idim' = [idim EXCEPT ![t] = 0]
    /\ pc' = [pc EXCEPT ![t] = "rand"]
    /\ UNCHANGED <<p, p_try, mapping_done, count_try, r_tmp, rand_state, seed0, draws>>
    /\ UNCHANGED <<dim, adjVars, geoVars>>

\* Line 48, first half: rand() reads the global generator state.  rand() is not
\* required to be thread-safe: the read and the write below are two steps.
RandRead(t) ==
    /\ pc[t] = "rand"
    /\ r_tmp' = [r_tmp EXCEPT ![t] = rand_state]
    /\ pc' = [pc EXCEPT ![t] = "rand_ret"]
    /\ UNCHANGED <<p, p_try, p_unit, mapping_done, count_try, idim, rand_state,
                   seed0, query, attempts, failed, draws>>
    /\ UNCHANGED <<dim, adjVars, geoVars>>

\* Line 48, second half: rand() stores the new state and returns it;
\* p_try[idim] is assigned; line 47 advances idim.
RandReturn(t) ==
    /\ pc[t] = "rand_ret"
    /\ rand_state' = NextRand(r_tmp[t])
    /\ p_try' = [p_try EXCEPT ![t][idim[t]] = PerturbBase(t)[idim[t]] + Offset(rand_state')]
    /\ draws' = [draws EXCEPT ![t] = @ + 1]
    /\ idim' = [idim EXCEPT ![t] = @ + 1]
    /\ pc' = [pc EXCEPT ![t] = IF idim[t] + 1 < dim THEN "rand" ELSE "count"]
    /\ UNCHANGED <<p, p_unit, mapping_done, count_try, r_tmp, seed0, query,
                   attempts, failed>>
    /\ UNCHANGED <<dim, adjVars, geoVars>>

\* Lines 49-53 and, after the break, line 57.
CountTry(t) ==
    /\ pc[t] = "count"
    /\ count_try' = [count_try EXCEPT ![t] = NextCount(@)]
    /\ pc' = [pc EXCEPT ![t] = IF RetryLimitReached(count_try'[t]) THEN "done" ELSE "try"]
    /\ UNCHANGED <<p, p_try, p_unit, mapping_done, idim, r_tmp, rand_state, seed0,
                   query, attempts, failed, draws>>
    /\ UNCHANGED <<dim, adjVars, geoVars>>

\* The mapping of a concurrent call throws at most ConcFails times.
TransformThrowsCapped(t) ==
    /\ failed[t] < ConcFails
    /\ TransformThrows(t)

(***************************************************************************)
(* Components that a specification leaves untouched.                       *)
(***************************************************************************)
AdjIdle ==
    /\ return_all = FALSE
    /\ ii = 0
    /\ out = <<>>
    /\ outcome = "none"
    /\ path = <<>>

GeoIdle ==
    /\ gpc = "idle"
    /\ face = <<>>
    /\ A_real = 0
    /\ A_proj = 0
    /\ weight = <<0, 0>>
    /\ exact = TRUE

(***************************************************************************)
(* Specifications of try_mapping.                                          *)
(***************************************************************************)
\* One call of try_mapping<2> or try_mapping<3>, alone in the process.
Init ==
    /\ TryMappingInit({"t1"}, {2, 3})
    /\ AdjIdle
    /\ GeoIdle

Next ==
    \/ \E t \in Threads : TransformOk(t)
    \/ \E t \in Threads : TransformThrows(t)
    \/ \E t \in Threads : RandRead(t)
    \/ \E t \in Threads : RandReturn(t)
    \/ \E t \in Threads : CountTry(t)

Spec == Init /\ [][Next]_vars

\* The same call; a thread that is inside a function keeps running.
FairSpec == Init /\ [][Next]_vars /\ WF_vars(Next)

\* Two calls of try_mapping<2> running concurrently in one process.
ConcInit ==
    /\ TryMappingInit(Threads, {2})
    /\ AdjIdle
    /\ GeoIdle

ConcNext ==
    \/ \E t \in Threads : TransformOk(t)
    \/ \E t \in Threads : TransformThrowsCapped(t)
    \/ \E t \in Threads : RandRead(t)
    \/ \E t \in Threads : RandReturn(t)
    \/ \E t \in Threads : CountTry(t)

ConcSpec == ConcInit /\ [][ConcNext]_vars

(***************************************************************************)
(* get_connected_indices                                                   *)
(***************************************************************************)
\* A walk follows at most MaxSteps returned neighbours.
MaxSteps == 4

\* Arguments ii are drawn from -1..MaxIndex, which holds every valid index of
\* the hexahedron and invalid ones on both sides.
MaxIndex == 8

\* dim == 2, return_all (lines 150-162)
Connected2AllBad(i) ==
    CASE i = 0 -> <<1, 2>>
      [] i = 1 -> <<0, 3>>
      [] i = 2 -> <<0, 1>>
      [] i = 3 -> <<1, 2>>
      [] OTHER -> <<>>
Connected2All(i) ==
    CASE i = 0 -> <<1, 2>>
      [] i = 1 -> <<0, 3>>
      [] i = 2 -> <<0, 3>>
      [] i = 3 -> <<1, 2>>
      [] OTHER -> <<>>

\* dim == 2, !return_all (lines 165-173)
Connected2(i) ==
    CASE i = 0 -> <<2>>
      [] i = 1 -> <<3>>
      [] i = 2 -> <<0>>
      [] i = 3 -> <<1>>
      [] OTHER -> <<>>

\* dim == 3, return_all (lines 178-210)
Connected3All(i) ==
    CASE i = 0 -> <<1, 2, 4>>
      [] i = 1 -> <<0, 3, 5>>
      [] i = 2 -> <<0, 3, 6>>
      [] i = 3 -> <<1, 2, 7>>
      [] i = 4 -> <<0, 5, 6>>
      [] i = 5 -> <<1, 4, 7>>
      [] i = 6 -> <<2, 4, 7>>
      [] i = 7 -> <<3, 5, 6>>
      [] OTHER -> <<>>

\* dim == 3, !return_all (lines 213-229)
Connected3Bad(i) ==
    CASE i = 0 -> <<4>>
      [] i = 1 -> <<5>>
      [] i = 2 -> <<6>>
      [] i = 3 -> <<7>>
      [] i = 4 -> <<0>>
      [] i = 5 -> <<1>>
      [] i = 6 -> <<3>>
      [] i = 7 -> <<3>>
      [] OTHER -> <<>>
Connected3(i) ==
    CASE i = 0 -> <<4>>
      [] i = 1 -> <<5>>
      [] i = 2 -> <<6>>
      [] i = 3 -> <<7>>
      [] i = 4 -> <<0>>
      [] i = 5 -> <<1>>
      [] i = 6 -> <<2>>
      [] i = 7 -> <<3>>
      [] OTHER -> <<>>

\* get_connected_indices<d>(i) built with return_all = all: the vector out.
get_connected_indices(d, i, all) ==
    IF d = 2
    THEN (IF all THEN Connected2All(i) ELSE Connected2(i))
    ELSE IF d = 3
         THEN (IF all THEN Connected3All(i) ELSE Connected3(i))
         ELSE <<>>

\* Any instantiation and any int argument; the flag of line 146 is false in the
\* source as written and true in the build its comment (lines 141-142) describes.
AdjInit ==
    /\ dim \in {1, 2, 3}
    /\ return_all \in BOOLEAN
    /\ ii \in -1 .. MaxIndex
    /\ out = <<>>
    /\ outcome = "none"
    /\ path = <<ii>>

\* One call get_connected_indices<dim>(ii): the function has no throw and no
\* assertion, every call returns its vector.
GetConnected ==
    /\ outcome = "none"
    /\ out' = get_connected_indices(dim, ii, return_all)
    /\ outcome' = "returned"
    /\ UNCHANGED <<dim, return_all, ii, path>>
    /\ UNCHANGED <<tmVars, geoVars>>

\* The caller moves to one of the returned neighbours and will look it up next.
Follow ==
    /\ outcome = "returned"
    /\ Len(path) <= MaxSteps
    /\ \E k \in 1 .. Len(out) :
         /\ ii' = out[k]
         /\ path' = Append(path, out[k])
    /\ outcome' = "none"
    /\ UNCHANGED <<dim, return_all, out>>
    /\ UNCHANGED <<tmVars, geoVars>>

TmIdle ==
    /\ pc = [t \in Threads |-> "idle"]
    /\ p = [t \in Threads |-> <<>>]
    /\ p_try = [t \in Threads |-> <<>>]
    /\ p_unit = [t \in Threads |-> CallerUnit]
    /\ mapping_done = [t \in Threads |-> FALSE]
    /\ count_try = [t \in Threads |-> 0]
    /\ idim = [t \in Threads |-> 0]
    /\ r_tmp = [t \in Threads |-> 0]
    /\ rand_state = 0
    /\ seed0 = 0
    /\ query = [t \in Threads |-> <<>>]
    /\ attempts = [t \in Threads |-> 0]
    /\ failed = [t \in Threads |-> 0]
    /\ draws = [t \in Threads |-> 0]

AdjNext ==
    \/ GetConnected
    \/ Follow

AdjInitAll ==
    /\ AdjInit
    /\ TmIdle
    /\ GeoIdle

AdjSpec == AdjInitAll /\ [][AdjNext]_vars

(***************************************************************************)
(* Properties of try_mapping.                                              *)
(***************************************************************************)
Abs(x) == IF x < 0 THEN -x ELSE x

Called(t) == pc[t] # "idle"

\* C1: when every inversion attempt of a call throws, the call makes exactly
\* 21 attempts (the original point and 20 perturbed ones), then stops and
\* returns false; no call ever makes a 22nd attempt.
C1_AllFailTwentyOneAttempts ==
    \A t \in Threads :
        /\ attempts[t] <= 21
        /\ (pc[t] = "done" /\ failed[t] = attempts[t])
               => (attempts[t] = 21 /\ ~mapping_done[t])
        /\ (failed[t] = 21) => pc[t] # "try"

C1_Witness ==
    \E t \in Threads :
        pc[t] = "done" /\ failed[t] = 21 /\ attempts[t] = 21 /\ ~mapping_done[t]

\* C2: whatever the pattern of failing and succeeding attempts, the retry
\* loop terminates, after at most 21 inversion attempts.
C2_TerminatesWithin21 ==
    /\ [](\A t \in Threads : attempts[t] <= 21)
    /\ <>(\A t \in Threads : pc[t] \in {"idle", "done"})

C2_Witness ==
    \E t \in Threads :
        pc[t] = "done" /\ mapping_done[t] /\ attempts[t] = 3 /\ failed[t] = 2

\* C3: a call returns true exactly when an attempt succeeded, and p_unit is
\* then the result of that last attempt; it returns false exactly when all 21
\* attempts threw, and p_unit then still is the caller's value: no attempt
\* that throws writes p_unit.
C3_DistinguishableOutcome ==
    \A t \in Threads :
        /\ (Called(t) /\ ~mapping_done[t]) => p_unit[t] = CallerUnit
        /\ pc[t] = "done" =>
              /\ mapping_done[t] <=> (failed[t] < attempts[t])
              /\ mapping_done[t] => p_unit[t] = TransformResult(query[t])
              /\ ~mapping_done[t] <=> (failed[t] = 21 /\ attempts[t] = 21)

C3_Witness ==
    \E t \in Threads :
        /\ pc[t] = "done" /\ mapping_done[t] /\ failed[t] >= 1
        /\ query[t] # p[t]
        /\ p_unit[t] = TransformResult(query[t])

\* C4: when the first attempt succeeds the call returns true after exactly one
\* attempt, made at the caller's point p itself, with count_try still 0 and
\* without a value drawn from rand().
C4_FirstAttemptNoRetry ==
    \A t \in Threads :
        (pc[t] = "done" /\ failed[t] = 0) =>
            /\ mapping_done[t]
            /\ attempts[t] = 1
            /\ query[t] = p[t]
            /\ count_try[t] = 0
            /\ draws[t] = 0
            /\ (\A u \in Threads \ {t} : ~Called(u)) => rand_state = seed0

C4_Witness ==
    \E t \in Threads :
        pc[t] = "done" /\ failed[t] = 0 /\ attempts[t] = 1 /\ p_unit[t] = TransformResult(p[t])

\* The generator state after k calls of rand() by a thread running alone.
RECURSIVE SoloRand(_, _)
SoloRand(s, k) == IF k = 0 THEN s ELSE SoloRand(NextRand(s), k - 1)

\* The point thread t hands to its a-th attempt when it runs alone.
SoloQuery(t, a) ==
    IF a = 1
    THEN p[t]
    ELSE [i \in Axes(dim) |->
             p[t][i] + Offset(SoloRand(seed0, (a - 2) * dim + i + 1))]

\* C5: two concurrent calls do not interfere: the points a call tries are the
\* points it tries when it runs alone, in every interleaving with the other call.
C5_NoInterference ==
    \A t \in Threads :
        attempts[t] >= 1 => query[t] = SoloQuery(t, attempts[t])

Pow2(d) == IF d = 1 THEN 2 ELSE IF d = 2 THEN 4 ELSE 8

ValidIndex(d, i) == d \in {2, 3} /\ i \in 0 .. (Pow2(d) - 1)

\* No step of the walk goes back to the node it just came from.
NonBacktracking == \A k \in 3 .. Len(path) : path[k] # path[k - 2]

\* C6: with return_all = false every valid node has exactly one neighbour,
\* which is another node, and the neighbour's neighbour is the node itself.
C6_PrimaryInvolution ==
    (~return_all /\ ValidIndex(dim, path[1])) =>
        /\ outcome = "returned" => (Len(out) = 1 /\ out[1] # ii)
        /\ Len(path) >= 2 => (path[2] # path[1] /\ ValidIndex(dim, path[2]))
        /\ Len(path) >= 3 => path[3] = path[1]

C6_Witness ==
    /\ ~return_all /\ dim = 3 /\ Len(path) >= 3
    /\ path[1] = 6 /\ path[2] = 2 /\ path[3] = 6

\* C7: a lookup with an index outside 0..2^dim-1, or a dimension outside
\* {2,3}, ends in an InvalidIndex error and not in a normal return.
C7_InvalidIndexFails ==
    (outcome # "none" /\ ~ValidIndex(dim, ii)) => outcome = "InvalidIndex"

\* C8 as stated: from node 0 of the 2D full table, following any returned
\* neighbour at every step, the walk is back at node 0 after 4 steps and not
\* before.
C8_AnyWalkReturnsAfterFour ==
    (return_all /\ dim = 2 /\ path[1] = 0) =>
        /\ \A k \in 2 .. 4 : Len(path) >= k => path[k] # 0
        /\ Len(path) >= 5 => path[5] = 0

\* C8 amended: every node of the 2D full table has exactly two neighbours,
\* and a walk from node 0 that never steps back to the node it just left is
\* back at node 0 after 4 steps and not before.
C8_CycleWalkReturnsAfterFour ==
    (return_all /\ dim = 2 /\ path[1] = 0) =>
        /\ outcome = "returned" => (Len(out) = 2 /\ out[1] # out[2])
        /\ NonBacktracking =>
              /\ \A k \in 2 .. 4 : Len(path) >= k => path[k] # 0
              /\ Len(path) >= 5 => path[5] = 0

C8_Witness ==
    /\ return_all /\ dim = 2 /\ NonBacktracking
    /\ Len(path) >= 5 /\ path[1] = 0 /\ path[2] = 1 /\ path[3] = 3
    /\ path[4] = 2 /\ path[5] = 0

(***************************************************************************)
(* triangle_area and recharge_weight<3>, in binary floating point.         *)
(*                                                                         *)
(* A double is modelled by a binary format of Prec significant bits with   *)
(* gradual underflow at 2^-FracBits: a number is held as the integer n of  *)
(* n / 2^FracBits, and every operation returns the exact result rounded to *)
(* the nearest representable number, ties to even, as IEEE 754 does.  A    *)
(* value is the record [v |-> n, ok |-> no operation that produced it      *)
(* rounded].                                                               *)
(***************************************************************************)
\* Significant bits of the format (53 in a double).
Prec == 2
\* Vertex coordinates are drawn from 0..MaxCoord.
MaxCoord == 2

FracBits == Prec + 1

RECURSIVE TwoTo(_)
TwoTo(e) == IF e = 0 THEN 1 ELSE 2 * TwoTo(e - 1)

One == TwoTo(FracBits)

\* The least e >= from with a < 2^Prec * 2^e * d.
RECURSIVE Exponent(_, _, _)
Exponent(a, d, from) ==
    IF a < TwoTo(Prec) * TwoTo(from) * d THEN from ELSE Exponent(a, d, from + 1)

\* n/d rounded to the nearest representable number, ties to even.
RoundTruncates(n, d) ==
    LET a == Abs(n)
        q == d * TwoTo(Exponent(a, d, 0))
        m == a \div q
    IN  (IF n < 0 THEN -1 ELSE 1) * m * (q \div d)
Round(n, d) ==
    LET a == Abs(n)
        q == d * TwoTo(Exponent(a, d, 0))
        m == a \div q
        r == a % q
        up == IF 2 * r > q \/ (2 * r = q /\ m % 2 = 1) THEN m + 1 ELSE m
    IN  (IF n < 0 THEN -1 ELSE 1) * up * (q \div d)

\* Whether n/d is representable.
Representable(n, d) ==
    LET a == Abs(n) IN a % (d * TwoTo(Exponent(a, d, 0))) = 0

\* The integer part of the square root of n, searched in lo..hi.
RECURSIVE ISqrt(_, _, _)
ISqrt(n, lo, hi) ==
    IF lo = hi THEN lo
    ELSE LET mid == (lo + hi + 1) \div 2
         IN  IF mid * mid <= n THEN ISqrt(n, mid, hi) ELSE ISqrt(n, lo, mid - 1)

\* sqrt(n) rounded to the nearest representable number, ties to even.
RoundSqrt(n) ==
    LET s == ISqrt(n, 0, n)
        q == TwoTo(Exponent(s, 1, 0))
        m == s \div q
        mid == (2 * m + 1) * q
        up == IF 4 * n > mid * mid \/ (4 * n = mid * mid /\ m % 2 = 1) THEN m + 1 ELSE m
    IN  up * q

\* The double of an integer coordinate.
Dbl(c) == [v |-> Round(c * One, 1), ok |-> Representable(c * One, 1)]

FMul(a, b) == [v  |-> Round(a.v * b.v, One),
               ok |-> a.ok /\ b.ok /\ Representable(a.v * b.v, One)]
FAdd(a, b) == [v  |-> Round(a.v + b.v, 1),
               ok |-> a.ok /\ b.ok /\ Representable(a.v + b.v, 1)]
FSub(a, b) == [v  |-> Round(a.v - b.v, 1),
               ok |-> a.ok /\ b.ok /\ Representable(a.v - b.v, 1)]
\* 0.5*a
FHalf(a)   == [v |-> Round(a.v, 2), ok |-> a.ok /\ Representable(a.v, 2)]
\* pow(a, 2)
FSqr(a)    == FMul(a, a)
\* sqrt(a)
FSqrt(a)   == LET r == RoundSqrt(a.v * One)
              IN  [v |-> r, ok |-> a.ok /\ r * r = a.v * One]
\* std::abs(a)
FAbs(a)    == [v |-> Abs(a.v), ok |-> a.ok]

\* a1*b2 - a2*b1 - a1*b3 + a3*b1 + a2*b3 - a3*b2, evaluated left to right
\* (each of lines 98, 99, 100).
MinorWrongSign(a1, b1, a2, b2, a3, b3) ==
    FSub(FAdd(FAdd(FSub(FAdd(FMul(a1, b2), FMul(a2, b1)),
                        FMul(a1, b3)),
                   FMul(a3, b1)),
              FMul(a2, b3)),
         FMul(a3, b2))
Minor(a1, b1, a2, b2, a3, b3) ==
    FSub(FAdd(FAdd(FSub(FSub(FMul(a1, b2), FMul(a2, b1)),
                        FMul(a1, b3)),
                   FMul(a3, b1)),
              FMul(a2, b3)),
         FMul(a3, b2))

\* triangle_area(A, B, C, project) for dim = 3 (lines 87-104); a point is
\* <<x, y, z>>, here indexed 1..3 for the source's [0], [1], [2].
triangle_area(A, B, C, project) ==
    IF project
    THEN FAbs(FHalf(FAdd(FAdd(FMul(A[1], FSub(B[2], C[2])),
                              FMul(B[1], FSub(C[2], A[2]))),
                         FMul(C[1], FSub(A[2], B[2])))))
    ELSE LET area == FAdd(FAdd(FSqr(Minor(A[1], A[2], B[1], B[2], C[1], C[2])),
                               FSqr(Minor(A[1], A[3], B[1], B[3], C[1], C[3]))),
                          FSqr(Minor(A[2], A[3], B[2], B[3], C[2], C[3])))
         IN  FHalf(FSqrt(area))

\* A vertex with integer coordinates as a dealii::Point<3> of doubles.
Vertex(x, y, z) == <<Dbl(x), Dbl(y), Dbl(z)>>

\* recharge_weight<3>(cell, face) has read the four vertices of the face
\* (lines 125-128), in the vertex order of the mesh: v1, v2 along the first
\* axis, v3 above v1, v4 anywhere; v1, v2 at height z and v3, v4 at height
\* z + tilt (tilt = 0: a horizontal face).
GeoInit ==
    /\ dim = 3
    /\ gpc = "start"
    /\ \E x1, y1, x2, y3, x4, y4, z \in 0 .. MaxCoord :
       \E tilt \in {0, 1} :
           face = << Vertex(x1, y1, z), Vertex(x2, y1, z),
                     Vertex(x1, y3, z + tilt), Vertex(x4, y4, z + tilt) >>
    /\ A_real = Dbl(0)
    /\ A_proj = Dbl(0)
    /\ weight = <<0, 0>>
    /\ exact = TRUE

\* Line 129.
AreaReal ==
    /\ gpc = "start"
    /\ A_real' = FAdd(triangle_area(face[1], face[2], face[4], FALSE),
                      triangle_area(face[1], face[4], face[3], FALSE))
    /\ gpc' = "real"
    /\ UNCHANGED <<face, A_proj, weight, exact>>
    /\ UNCHANGED <<dim, tmVars, adjVars>>

\* Line 130.
AreaProj ==
    /\ gpc = "real"
    /\ A_proj' = FAdd(triangle_area(face[1], face[2], face[4], TRUE),
                      triangle_area(face[1], face[4], face[3], TRUE))
    /\ gpc' = "proj"
    /\ UNCHANGED <<face, A_real, weight, exact>>
    /\ UNCHANGED <<dim, tmVars, adjVars>>

\* Lines 131-133: weight = A_proj/A_real, kept as the pair of its operands: a
\* correctly rounded quotient of two numbers of the format is 1 exactly when
\* they are equal.
Weight ==
    /\ gpc = "proj"
    /\ weight' = <<A_proj.v, A_real.v>>
    /\ exact' = (A_proj.ok /\ A_real.ok)
    /\ gpc' = "done"
    /\ UNCHANGED <<face, A_real, A_proj>>
    /\ UNCHANGED <<dim, tmVars, adjVars>>

GeoNext ==
    \/ AreaReal
    \/ AreaProj
    \/ Weight

GeoInitAll ==
    /\ GeoInit
    /\ TmIdle
    /\ AdjIdle

GeoSpec == GeoInitAll /\ [][GeoNext]_vars

(***************************************************************************)
(* Properties of recharge_weight.                                          *)
(***************************************************************************)
Horizontal == \A k \in 1 .. 4 : face[k][3].v = face[1][3].v

====
